---------------------------- MODULE Spec2Model ----------------------------
(***************************************************************************)
(* A model of the Amazon Fraud Detector Python SDK wrapper:                *)
(*   frauddetector/frauddetector.py  (class FraudDetector: provisioning,   *)
(*                                    training, activation, deployment)    *)
(*   frauddetector/profiler.py       (class Profiler: schema inference)    *)
(*                                                                         *)
(* The remote Fraud Detector service (the boto3 client self.fd) is the     *)
(* environment: sets of resource names per kind, the status of the model   *)
(* version, and the outcome of every request (it succeeds or raises).      *)
(* Every request a handler issues is appended to `log` in program order.   *)
(* HTTP status codes are written as strings ("200") so that a status map   *)
(* can hold them beside the string "skipped".                              *)
(***************************************************************************)
EXTENDS Integers, Sequences, FiniteSets, TLC

\* ------------------------------------------------------------------ bounds
\* Longest list (variables, labels, outcomes, rules) passed to one call.
MaxLen == 2
\* The poll counter of fit's waiting loop saturates here.
MaxPolls == 3
\* The fit calls of one run.
MaxFits == 1
\* Rows of a label column, columns of a dataset to classify.
MaxRows == 3
MaxCols == 2
\* Event identifiers drawn in one run.
MaxIds == 3
\* Rows of a DataFrame handed to batch_predict.
MaxBatch == 3

\* Resource names the caller may use, for every resource kind.
Names == {"n1", "n2"}

\* Lists of names of length 0..MaxLen (duplicates allowed).
NameLists == UNION {[1..n -> Names] : n \in 0..MaxLen}

\* The lists fit is called with, for variables and for labels.
FitLists == {<<>>, <<"n1">>, <<"n1", "n2">>}

\* Model-version statuses of the remote service; "NONE": no such version.
Statuses == {"NONE", "UNTRAINED", "TRAINING_IN_PROGRESS", "TRAINING_COMPLETE",
             "ACTIVE", "INACTIVE"}

VARIABLES
    \* the FraudDetector instance (constructor arguments)
    entity_type, event_type, model_name,
    \* the remote service
    fd_entityTypes, fd_labels, fd_variables, fd_eventTypes, fd_models,
    fd_rules, fd_status,
    \* the caller: position, running/last operation, its arguments and locals
    pc, op, variables, labels, outcomes_list, rules_list, wait,
    log, raised, result, existing_names, obs1, obs2, polls,
    \* history: the number of fit calls made, and the names the running create
    \* call is asked for again (the call before it was the same call for the
    \* same names, and returned)
    fits, again,
    \* the Profiler's caller: the dataset and the arguments, the method applied
    \* to them, and what it returned, raised and logged
    data, event_column, timestamp_column,
    prof_op, prof_raised, prof_logged, labels_out, table_out,
    filter_warnings, variables_out, schema_out,
    \* two callers running a create operation at the same time, each with
    \* its position and locals, and the requests the service received
    callers, requests,
    \* prediction: the event identifiers drawn so far in the run, and the
    \* arguments of the last batch call
    event_ids, batch_in

instVars == <<entity_type, event_type, model_name>>
fdVars == <<fd_entityTypes, fd_labels, fd_variables, fd_eventTypes, fd_models,
            fd_rules, fd_status>>
callVars == <<pc, op, variables, labels, outcomes_list, rules_list, wait,
              log, raised, result, existing_names, obs1, obs2, polls>>
histVars == <<fits, again>>
profVars == <<data, event_column, timestamp_column,
              prof_op, prof_raised, prof_logged, labels_out, table_out,
              filter_warnings, variables_out, schema_out>>
raceVars == <<callers, requests>>
predVars == <<event_ids, batch_in>>
vars == <<instVars, fdVars, callVars, histVars, profVars, raceVars, predVars>>

\* ------------------------------------------------------------ the requests
\* The empty status map / no value.
NoResult == <<>>

\* A status map after recording status s under key k (a later entry for the
\* same key replaces the earlier one, as the dict comprehension does).
Put(m, k, s) == (k :> s) @@ m

\* The world a handler runs in: the remote sets, the request log, whether an
\* exception is propagating, the handler's return value and listing snapshot.
World == [ents |-> fd_entityTypes, labs |-> fd_labels, vars |-> fd_variables,
          evts |-> fd_eventTypes, mods |-> fd_models, rules |-> fd_rules,
          status |-> fd_status, log |-> <<>>, raised |-> FALSE,
          result |-> NoResult, existing |-> {}]

\* One request to the remote service: logged in order; the f-th request of the
\* operation raises (f = 0: none does).  Nothing is issued once an exception
\* propagates.
Issue(w, api, name, f) ==
    IF w.raised THEN w
    ELSE [w EXCEPT !.log = Append(@, [api |-> api, name |-> name,
                                      ok |-> (Len(w.log) + 1 # f)]),
                   !.raised = (Len(w.log) + 1 = f)]

\* The requests of a log that created something.
IsCreate(r) == r.api \in {"put_entity_type", "put_label", "create_variable",
                          "put_event_type", "create_model"}


\* --------------------------------------------------------- create handlers
\* FraudDetector.create_entity_type: list, then put unless listed.  The
\* skipped branch records its status under self.event_type.
create_entity_type(w, f) ==
    IF w.raised THEN w
    ELSE LET w1 == Issue(w, "get_entity_types", "*", f)
             existing == w.ents
         IN IF w1.raised THEN w1
            ELSE IF entity_type \notin existing
                 THEN LET w2 == Issue(w1, "put_entity_type", entity_type, f)
                      IN IF w2.raised THEN w2
                         ELSE [w2 EXCEPT !.ents = @ \cup {entity_type},
                                         !.existing = existing,
                                         !.result = Put(NoResult, entity_type, "200")]
                 ELSE [w1 EXCEPT !.existing = existing,
                                 !.result = Put(NoResult, event_type, "skipped")]

\* FraudDetector.create_event_type(variables, labels); the two lists only fill
\* the request.
create_event_type(w, f) ==
    IF w.raised THEN w
    ELSE LET w1 == Issue(w, "get_event_types", "*", f)
             existing == w.evts
         IN IF w1.raised THEN w1
            ELSE IF event_type \notin existing
                 THEN LET w2 == Issue(w1, "put_event_type", event_type, f)
                      IN IF w2.raised THEN w2
                         ELSE [w2 EXCEPT !.evts = @ \cup {event_type},
                                         !.existing = existing,
                                         !.result = Put(NoResult, event_type, "200")]
                 ELSE [w1 EXCEPT !.existing = existing,
                                 !.result = Put(NoResult, event_type, "skipped")]

\* FraudDetector.create_model.
create_model(w, f) ==
    IF w.raised THEN w
    ELSE LET w1 == Issue(w, "get_models", "*", f)
             existing == w.mods
         IN IF w1.raised THEN w1
            ELSE IF model_name \notin existing
                 THEN LET w2 == Issue(w1, "create_model", model_name, f)
                      IN IF w2.raised THEN w2
                         ELSE [w2 EXCEPT !.mods = @ \cup {model_name},
                                         !.existing = existing,
                                         !.result = Put(NoResult, model_name, "200")]
                 ELSE [w1 EXCEPT !.existing = existing,
                                 !.result = Put(NoResult, model_name, "skipped")]

\* The loop of create_variables from its i-th variable on: existing_names was
\* read once, before the loop.
RECURSIVE create_variables_loop(_, _, _, _)
create_variables_loop(w, vs, i, f) ==
    IF w.raised \/ i > Len(vs) THEN w
    ELSE LET v == vs[i]
         IN IF v \notin w.existing
            THEN LET w1 == Issue(w, "create_variable", v, f)
                 IN create_variables_loop(
                        IF w1.raised THEN w1
                        ELSE [w1 EXCEPT !.vars = @ \cup {v},
                                        !.result = Put(@, v, "200")],
                        vs, i + 1, f)
            ELSE create_variables_loop(
                     [w EXCEPT !.result = Put(@, v, "skipped")],
                     vs, i + 1, f)

\* FraudDetector.create_variables(variables): vs; a variable is its name.
create_variables(w, vs, f) ==
    IF w.raised THEN w
    ELSE LET w1 == Issue(w, "get_variables", "*", f)
         IN IF w1.raised THEN w1
            ELSE create_variables_loop(
                     [w1 EXCEPT !.existing = w.vars, !.result = NoResult],
                     vs, 1, f)

\* The loop of create_labels from its i-th label on.
RECURSIVE create_labels_loop(_, _, _, _)
create_labels_loop(w, ls, i, f) ==
    IF w.raised \/ i > Len(ls) THEN w
    ELSE LET l == ls[i]
         IN IF l \notin w.existing
            THEN LET w1 == Issue(w, "put_label", l, f)
                 IN create_labels_loop(
                        IF w1.raised THEN w1
                        ELSE [w1 EXCEPT !.labs = @ \cup {l},
                                        !.result = Put(@, l, "200")],
                        ls, i + 1, f)
            ELSE create_labels_loop(
                     [w EXCEPT !.result = Put(@, l, "skipped")],
                     ls, i + 1, f)

\* FraudDetector.create_labels(labels): ls; a label is its name.
create_labels(w, ls, f) ==
    IF w.raised THEN w
    ELSE LET w1 == Issue(w, "get_labels", "*", f)
         IN IF w1.raised THEN w1
            ELSE create_labels_loop(
                     [w1 EXCEPT !.existing = w.labs, !.result = NoResult],
                     ls, 1, f)

\* --------------------------------------------------------- delete handlers
\* FraudDetector.delete_entity_type / delete_event_type / delete_model: one
\* request, the status code recorded under the resource's name.
delete_entity_type(w, f) ==
    LET w1 == Issue(w, "delete_entity_type", entity_type, f)
    IN IF w1.raised THEN w1
       ELSE [w1 EXCEPT !.ents = @ \ {entity_type},
                       !.result = Put(NoResult, entity_type, "200")]

delete_event_type(w, f) ==
    LET w1 == Issue(w, "delete_event_type", event_type, f)
    IN IF w1.raised THEN w1
       ELSE [w1 EXCEPT !.evts = @ \ {event_type},
                       !.result = Put(NoResult, event_type, "200")]

delete_model(w, f) ==
    LET w1 == Issue(w, "delete_model", model_name, f)
    IN IF w1.raised THEN w1
       ELSE [w1 EXCEPT !.mods = @ \ {model_name},
                       !.result = Put(NoResult, model_name, "200")]

\* A delete_variables that stops after its first name.
delete_variables_first(w, vs, i, f) ==
    IF w.raised \/ i > Len(vs) \/ i > 1 THEN w
    ELSE LET w1 == Issue(w, "delete_variable", vs[i], f)
         IN IF w1.raised THEN w1
            ELSE [w1 EXCEPT !.vars = @ \ {vs[i]},
                            !.result = Put(@, vs[i], "200")]

\* FraudDetector.delete_variables(variables): one request per name.
RECURSIVE delete_variables(_, _, _, _)
delete_variables(w, vs, i, f) ==
    IF w.raised \/ i > Len(vs) THEN w
    ELSE LET w1 == Issue(w, "delete_variable", vs[i], f)
         IN delete_variables(
                IF w1.raised THEN w1
                ELSE [w1 EXCEPT !.vars = @ \ {vs[i]},
                                !.result = Put(@, vs[i], "200")],
                vs, i + 1, f)

\* FraudDetector.delete_labels(labels): one request per name.
RECURSIVE delete_labels(_, _, _, _)
delete_labels(w, ls, i, f) ==
    IF w.raised \/ i > Len(ls) THEN w
    ELSE LET w1 == Issue(w, "delete_label", ls[i], f)
         IN delete_labels(
                IF w1.raised THEN w1
                ELSE [w1 EXCEPT !.labs = @ \ {ls[i]},
                                !.result = Put(@, ls[i], "200")],
                ls, i + 1, f)

\* ------------------------------------------------------------- training
\* _setup_project with the variables created before the labels.
setup_project_swapped(w, vs, ls, f) ==
    create_model(
        create_event_type(
            create_labels(
                create_variables(
                    create_entity_type(w, f),
                    vs, f),
                ls, f),
            f),
        f)

\* FraudDetector._setup_project(variables, labels): five creates in a row; an
\* exception of one ends the sequence (Issue and the handlers do nothing once
\* w.raised).
setup_project(w, vs, ls, f) ==
    create_model(
        create_event_type(
            create_variables(
                create_labels(
                    create_entity_type(w, f),
                    ls, f),
                vs, f),
            f),
        f)

\* fit up to its waiting loop: _setup_project (its return value is dropped),
\* then response = create_model_version(...), which starts the training of
\* the version.  Without waiting fit returns that response, written as its
\* status code.
fit_setup(w, vs, ls, f) ==
    LET w1 == setup_project(w, vs, ls, f)
        w2 == Issue(w1, "create_model_version", model_name, f)
    IN IF w2.raised THEN w2
       ELSE [w2 EXCEPT !.status = "TRAINING_IN_PROGRESS", !.result = "200"]

\* A waiting loop that gives up after MaxPolls polls.
PollExitLimit(status, n) == status # "TRAINING_IN_PROGRESS" \/ n >= MaxPolls

\* The break condition of fit's waiting loop, on the status a poll returned
\* after `n` polls: the loop has no poll limit and no timeout.
PollExit(status, n) == status # "TRAINING_IN_PROGRESS"

\* ------------------------------------------------- activation, deployment
\* A second comparison that only rejects a training in progress.
ActivateSecondLax(s) == s # "TRAINING_IN_PROGRESS"

\* A deploy guard that also lets a trained, not yet active, version pass.
DeployPassesLax(s) == s \in {"ACTIVE", "TRAINING_COMPLETE"}

\* activate's guard is `self.model_status != 'TRAINING_COMPLETE' and
\* self.model_status != 'ACTIVE'`: the property is read once for the first
\* comparison and, only when that one is true, once more for the second.
ActivateFirstPasses(s) == s = "TRAINING_COMPLETE"
ActivateSecondPasses(s) == s = "ACTIVE"

\* deploy's guard: `self.model_status != 'ACTIVE'` raises.
DeployPasses(s) == s = "ACTIVE"

\* FraudDetector.set_model_version_inactive(): one
\* update_model_version_status(status='INACTIVE') request, whose response is
\* returned (written as its status code).  The service has no version to
\* update when the version is missing ("NONE"): the request raises.
set_model_version_inactive(w, f) ==
    LET w1 == Issue(w, "update_model_version_status", "INACTIVE",
                    IF w.status = "NONE" THEN 1 ELSE f)
    IN IF w1.raised THEN w1
       ELSE [w1 EXCEPT !.status = "INACTIVE", !.result = "200"]

\* FraudDetector.delete_model_version(model_version): one
\* delete_model_version request, for the version given or, without one, for
\* the instance's version; its response is returned.  other: a version other
\* than the instance's was given, and the instance's version stays as it is.
delete_model_version(w, other, f) ==
    LET w1 == Issue(w, "delete_model_version", model_name,
                    IF ~other /\ w.status = "NONE" THEN 1 ELSE f)
    IN IF w1.raised THEN w1
       ELSE [w1 EXCEPT !.status = IF other THEN @ ELSE "NONE",
                       !.result = "200"]

\* FraudDetector.create_outcomes(outcomes_list): one put_outcome per outcome.
RECURSIVE create_outcomes(_, _, _, _)
create_outcomes(w, outcomes, i, f) ==
    IF w.raised \/ i > Len(outcomes) THEN w
    ELSE create_outcomes(Issue(w, "put_outcome", outcomes[i], f),
                         outcomes, i + 1, f)

\* activate after its guard: put_detector, the outcomes if any were given,
\* update_model_version_status(status='ACTIVE').
activate_calls(w, outcomes, f) ==
    LET w1 == Issue(w, "put_detector", "*", f)
        w2 == create_outcomes(w1, outcomes, 1, f)
        w3 == Issue(w2, "update_model_version_status", "ACTIVE", f)
    IN IF w3.raised THEN w3 ELSE [w3 EXCEPT !.status = "ACTIVE"]

\* The loop of create_rules from its i-th rule on; the responses are a list,
\* one entry per rule.
RECURSIVE create_rules_loop(_, _, _, _)
create_rules_loop(w, rules, i, f) ==
    IF w.raised \/ i > Len(rules) THEN w
    ELSE IF rules[i] \notin w.existing
         THEN LET w1 == Issue(w, "create_rule", rules[i], f)
              IN create_rules_loop(
                     IF w1.raised THEN w1
                     ELSE [w1 EXCEPT !.rules = @ \cup {rules[i]},
                                     !.result = Append(@, "200")],
                     rules, i + 1, f)
         ELSE create_rules_loop([w EXCEPT !.result = Append(@, "skipped")],
                                rules, i + 1, f)

\* FraudDetector.create_rules(rules).  nokey: the get_rules response holds no
\* 'ruleDetails' (the KeyError the handler catches); existing_rules is then
\* never assigned, and the loop's first test of it raises.
create_rules(w, rules, nokey, f) ==
    LET w1 == Issue(w, "get_rules", "*", f)
    IN IF w1.raised THEN w1
       ELSE IF nokey
            THEN IF Len(rules) > 0 THEN [w1 EXCEPT !.raised = TRUE] ELSE w1
            ELSE create_rules_loop([w1 EXCEPT !.existing = w.rules], rules, 1, f)

\* deploy after its guard: create_rules when a non-empty list was given, the
\* rules of the detector (self.rules: a KeyError here propagates), then
\* response = create_detector_version(...); deploy returns that response,
\* written as its status code.
deploy_calls(w, rules, nokey1, nokey2, f) ==
    LET w1 == IF Len(rules) > 0 THEN create_rules(w, rules, nokey1, f) ELSE w
        w2 == Issue(w1, "get_rules", "*", f)
        w3 == IF ~w2.raised /\ nokey2 THEN [w2 EXCEPT !.raised = TRUE] ELSE w2
        w4 == Issue(w3, "create_detector_version", "*", f)
    IN [w4 EXCEPT !.result = IF w4.raised THEN NoResult ELSE "200"]

\* FraudDetector.delete_rules(rules): one delete_rule per rule; a failing
\* request (those at the positions bad) is logged as a warning and the loop
\* goes on.
RECURSIVE delete_rules(_, _, _, _)
delete_rules(w, rules, i, bad) ==
    IF i > Len(rules) THEN w
    ELSE delete_rules(
             [w EXCEPT !.log = Append(@, [api |-> "delete_rule",
                                          name |-> rules[i],
                                          ok |-> (i \notin bad)]),
                       !.rules = IF i \in bad THEN @ ELSE @ \ {rules[i]}],
             rules, i + 1, bad)

\* -------------------------------------------------------------- prediction
\* uuid.uuid4(): an identifier that was not drawn before in the run (the
\* identifiers are numbered in the order they are drawn).
uuid4(drawn) == Len(drawn) + 1

\* Score fields of two models, and the answers of get_event_prediction: a
\* response with the scores of the detector's models in order and the rule
\* results, or an exception.
ScoreA == ("model_a_insightscore" :> "14.0")
ScoreB == ("model_b_insightscore" :> "70.0")
Raises == [raises |-> TRUE, modelScores |-> <<>>, ruleResults |-> <<>>]
Responses ==
    {[raises |-> FALSE, modelScores |-> <<ScoreA, ScoreB>>,
      ruleResults |-> <<"verify_outcome">>],
     [raises |-> FALSE, modelScores |-> <<ScoreB>>, ruleResults |-> <<>>],
     [raises |-> FALSE, modelScores |-> <<>>, ruleResults |-> <<>>]}
Answers == Responses \cup {Raises}

\* The world of a prediction: the identifiers drawn, the requests, whether an
\* exception propagates, the value returned.
PredWorld == [ids |-> event_ids, log |-> <<>>, raised |-> FALSE,
              result |-> NoResult]

\* score = response['modelScores'][0]["scores"]
\* score["ruleResults"] = response['ruleResults']
ScoreOfLastModel(response) ==
    Put(response.modelScores[Len(response.modelScores)], "ruleResults",
        response.ruleResults)

Score(response) ==
    Put(response.modelScores[1], "ruleResults", response.ruleResults)

\* predict: one get_event_prediction request with a new event identifier and
\* the event's variables; the request may raise, and a response without model
\* scores raises IndexError at [0].
predict(w, event_variables, answer) ==
    LET id == uuid4(w.ids)
        w1 == [w EXCEPT !.ids = Append(@, id),
                        !.log = Append(@, [api |-> "get_event_prediction",
                                           name |-> id,
                                           ok |-> ~answer.raises,
                                           event |-> event_variables,
                                           response |-> answer])]
    IN  IF answer.raises \/ answer.modelScores = <<>>
        THEN [w1 EXCEPT !.raised = TRUE]
        ELSE [w1 EXCEPT !.result = Score(answer)]

\* A row of a DataFrame: whether its timestamp and the row convert, and the
\* service's answer to its prediction.
Rows == {[conv |-> "ok", answer |-> a] : a \in Answers}
           \cup {[conv |-> c, answer |-> Raises] :
                    c \in {"bad_timestamp", "bad_row"}}
NoneArg == [kind |-> "None", rows |-> <<>>]
ListArg == [kind |-> "list", rows |-> <<>>]
DataFrames(n) == {[kind |-> "DataFrame", rows |-> rs] : rs \in [1..n -> Rows]}
PlainFrames ==
    {[kind |-> "DataFrame",
      rows |-> [i \in 1..n |->
                  [conv |-> "ok",
                   answer |-> [raises |-> FALSE, modelScores |-> <<ScoreB>>,
                               ruleResults |-> <<>>]]]] : n \in 0..MaxBatch}

\* The loop over the rows that goes on after a row that failed.
RECURSIVE batch_loop_on(_, _, _, _)
batch_loop_on(w, rows, i, predictions) ==
    IF i > Len(rows) THEN [w EXCEPT !.result = predictions]
    ELSE IF rows[i].conv = "bad_row"
         THEN batch_loop_on(w, rows, i + 1, predictions)
    ELSE LET p == predict(w, i, rows[i].answer)
         IN  IF p.raised
             THEN batch_loop_on([p EXCEPT !.raised = FALSE], rows, i + 1,
                                predictions)
             ELSE batch_loop_on(p, rows, i + 1,
                                Append(predictions, p.result))

\* for i in range(events.shape[0]): convert row i, predict it, append the
\* prediction; the first exception leaves the loop and is caught.
RECURSIVE batch_loop(_, _, _, _)
batch_loop(w, rows, i, predictions) ==
    IF i > Len(rows) THEN [w EXCEPT !.result = predictions]
    ELSE IF rows[i].conv = "bad_row"
         THEN [w EXCEPT !.result = predictions]
    ELSE LET p == predict(w, i, rows[i].answer)
         IN  IF p.raised
             THEN [p EXCEPT !.raised = FALSE, !.result = predictions]
             ELSE batch_loop(p, rows, i + 1, Append(predictions, p.result))

\* batch_predict(timestamp, events, df): without both arguments it returns
\* [].  type(events) == "dict" compares a type with a string and is never
\* true, so every call goes to the DataFrame branch, which reads `events`
\* only: events.loc on None or on a list raises AttributeError inside the
\* try.  The timestamp column is converted as a whole before the first row.
batch_predict(w, events, df) ==
    IF events.kind = "None" /\ df.kind = "None"
    THEN [w EXCEPT !.result = <<>>]
    ELSE IF events.kind # "DataFrame"
    THEN [w EXCEPT !.result = <<>>]
    ELSE IF \E i \in DOMAIN events.rows : events.rows[i].conv = "bad_timestamp"
    THEN [w EXCEPT !.result = <<>>]
    ELSE batch_loop(w, events.rows, 1, <<>>)

\* ------------------------------------------------------------ the profiler
\* A column name is the sequence of its characters, so that the patterns of
\* __map_feature_types can be searched for inside it.
EVENT_LABEL == <<"E", "V", "E", "N", "T", "_", "L", "A", "B", "E", "L">>
EVENT_TIMESTAMP == <<"E", "V", "E", "N", "T", "_", "T", "I", "M", "E", "S", "T", "A", "M", "P">>
IpPatterns == {<<"i", "p", "a", "d", "d", "r", "e", "s", "s">>, <<"i", "p", "_", "a", "d", "d", "r", "e", "s", "s">>, <<"i", "p", "a", "d", "d", "r">>}
EmailPatterns == {<<"e", "m", "a", "i", "l">>, <<"e", "m", "a", "i", "l", "_", "a", "d", "d", "r", "e", "s", "s">>, <<"e", "m", "a", "i", "l", "a", "d", "d", "r">>}
ColNames == {EVENT_LABEL, EVENT_TIMESTAMP,
             <<"l", "a", "b", "e", "l">>,
             <<"t", "s">>,
             <<"i", "p", "_", "a", "d", "d", "r", "e", "s", "s">>,
             <<"e", "m", "a", "i", "l">>,
             <<"i", "p", "_", "a", "d", "d", "r", "e", "s", "s", "_", "e", "m", "a", "i", "l">>}
EventColumns == {EVENT_LABEL, <<"l", "a", "b", "e", "l">>}
TimestampColumns == {EVENT_TIMESTAMP, <<"t", "s">>}
Dtypes == {"object", "int64", "float64", "bool"}

\* The cells of a column: values, or the missing value.
Null == "NaN"
Vals == {"a", "b", "c"}
Cells == Vals \cup {Null}

\* pandas str.contains(pat): pat occurs somewhere inside name.
Contains(name, pat) ==
    \E i \in 0..(Len(name) - Len(pat)) :
        \A j \in 1..Len(pat) : name[i + j] = pat[j]

ContainsAny(name, pats) == \E pat \in pats : Contains(name, pat)

ColumnNames(df) == {df[i].name : i \in 1..Len(df)}
Column(df, name) == df[CHOOSE i \in 1..Len(df) : df[i].name = name]

\* len(df): the number of rows (none without columns).
RowCount(df) == IF Len(df) = 0 THEN 0 ELSE Len(df[1].cells)

\* Series.unique(): the distinct cells in order of first occurrence, the
\* missing value included.
RECURSIVE UniqueLast(_)
UniqueLast(cells) ==
    IF Len(cells) = 0 THEN <<>>
    ELSE LET rest == UniqueLast(Tail(cells))
         IN  IF \E i \in 1..Len(rest) : rest[i] = Head(cells)
             THEN rest ELSE <<Head(cells)>> \o rest

RECURSIVE Unique(_)
Unique(cells) ==
    IF Len(cells) = 0 THEN <<>>
    ELSE LET n == Len(cells)
             init == Unique(SubSeq(cells, 1, n - 1))
         IN  IF \E i \in 1..Len(init) : init[i] = cells[n]
             THEN init ELSE Append(init, cells[n])

TooManyLabelsLax(n) == n > 3

\* len(label_summary.keys()) > 2
TooManyLabels(n) == n > 2

\* Profiler.__create_labels(data, event_column): what it returns ("list" with
\* the label descriptors' names, or "None"), whether it raised (the column
\* is missing: KeyError) and whether it logged an error.
profiler_create_labels(df, col) ==
    IF col \notin ColumnNames(df)
    THEN [kind |-> "raise", labels |-> <<>>, logged |-> FALSE]
    ELSE LET label_summary == Unique(Column(df, col).cells)
         IN  IF TooManyLabels(Len(label_summary))
             THEN [kind |-> "None", labels |-> <<>>, logged |-> TRUE]
             ELSE [kind |-> "list", labels |-> label_summary, logged |-> FALSE]

\* astype('str') on a cell: the missing value becomes the text "nan".
AsStr(c) == IF c = Null THEN "nan" ELSE c

\* 2^n.
RECURSIVE Pow2(_)
Pow2(n) == IF n <= 0 THEN 1 ELSE 2 * Pow2(n - 1)

\* floor(log2(m)) for m >= 1.
RECURSIVE Log2(_)
Log2(m) == IF m <= 1 THEN 0 ELSE 1 + Log2(m \div 2)

\* The least k with num * 2^k >= den (0 < num <= den).
RECURSIVE Doublings(_, _, _)
Doublings(num, den, k) ==
    IF num * Pow2(k) >= den THEN k ELSE Doublings(num, den, k + 1)

\* Binary long division: `steps` more quotient bits from the remainder r; the
\* remainder left and the last bit produced.
RECURSIVE Mantissa(_, _, _, _)
Mantissa(r, bit, den, steps) ==
    IF steps = 0 THEN [r |-> r, bit |-> bit]
    ELSE LET b == IF 2 * r >= den THEN 1 ELSE 0
         IN  Mantissa(2 * r - den * b, b, den, steps - 1)

\* round(4) where 10000 * num / den lies exactly halfway, m + 0.5: the code
\* rounds the float64 product (num / den) * 10000.  The quotient is rounded to
\* 53 bits first (an error of (c * den - r) / den units of its last bit), the
\* product to 53 bits again: it lands above m + 0.5, below it, or on it, and
\* only then the tie goes to the even digit.
RoundTie(num, den, m) ==
    LET k == Doublings(num, den, 0)
        d == Mantissa(num * Pow2(k) - den, 1, den, 52)
        c == IF 2 * d.r > den \/ (2 * d.r = den /\ d.bit = 1) THEN 1 ELSE 0
        n == 10000 * (c * den - d.r)
        s == den * Pow2(k + (IF m = 0 THEN -1 ELSE Log2(m)))
    IN  IF 2 * n > s THEN m + 1
        ELSE IF (m >= 1 /\ 2 * n < -s) \/ (m = 0 /\ 4 * n < -s) THEN m
        ELSE IF m % 2 = 0 THEN m ELSE m + 1

\* A ratio (0 <= num <= den) rounded to 4 decimals, counted in units of
\* 0.0001; dividing by zero rows gives NaN, which every comparison answers
\* with False.  Off a tie the float64 result is the nearest unit.
Pct(num, den) ==
    IF den = 0 THEN [nan |-> TRUE, v |-> 0]
    ELSE LET q == (10000 * num) \div den
             r == (10000 * num) % den
         IN  [nan |-> FALSE,
              v |-> IF 2 * r < den THEN q
                    ELSE IF 2 * r > den THEN q + 1
                    ELSE RoundTie(num, den, q)]

NonNull(cells) == {i \in 1..Len(cells) : cells[i] # Null}

\* A statistics row whose not-null count is the distinct count.
StatsRowNotNullDistinct(col, rowcnt, event_col) ==
    LET cells == IF col.name = event_col
                 THEN [i \in 1..Len(col.cells) |-> AsStr(col.cells[i])]
                 ELSE col.cells
        count   == Cardinality(NonNull(cells))
        nunique == Cardinality({cells[i] : i \in NonNull(cells)})
        null    == rowcnt - count
    IN  [feature_name |-> col.name,
         dtype        |-> IF col.name = event_col THEN "object" ELSE col.dtype,
         count        |-> count,
         nunique      |-> nunique,
         null         |-> null,
         not_null     |-> nunique,
         null_pct     |-> Pct(null, rowcnt),
         nunique_pct  |-> Pct(nunique, rowcnt)]

\* Profiler.__calculate_summary_stats: one row per column, in column order;
\* the event column is converted to text first.
StatsRow(col, rowcnt, event_col) ==
    LET cells == IF col.name = event_col
                 THEN [i \in 1..Len(col.cells) |-> AsStr(col.cells[i])]
                 ELSE col.cells
        count   == Cardinality(NonNull(cells))
        nunique == Cardinality({cells[i] : i \in NonNull(cells)})
        null    == rowcnt - count
    IN  [feature_name |-> col.name,
         dtype        |-> IF col.name = event_col THEN "object" ELSE col.dtype,
         count        |-> count,
         nunique      |-> nunique,
         null         |-> null,
         not_null     |-> rowcnt - null,
         null_pct     |-> Pct(null, rowcnt),
         nunique_pct  |-> Pct(nunique, rowcnt)]

calculate_summary_stats(df, event_col) ==
    [i \in 1..Len(df) |-> StatsRow(df[i], RowCount(df), event_col)]

\* The dtype rules applied after the name rules.
FeatureTypeDtypeLast(row) ==
    LET t0 == "UNKOWN"
        t3 == IF ContainsAny(row.feature_name, IpPatterns)
              THEN "IP_ADDRESS" ELSE t0
        t4 == IF ContainsAny(row.feature_name, EmailPatterns)
              THEN "EMAIL_ADDRESS" ELSE t3
        t5 == IF row.feature_name = EVENT_LABEL THEN "TARGET" ELSE t4
        t6 == IF row.feature_name = EVENT_TIMESTAMP
              THEN "EVENT_TIMESTAMP" ELSE t5
        t1 == IF row.dtype = "object" THEN "CATEGORY" ELSE t6
    IN  IF row.dtype \in {"int64", "float64"} THEN "NUMERIC" ELSE t1

\* The e-mail rule applied before the IP rule.
FeatureTypeEmailFirst(row) ==
    LET t0 == "UNKOWN"
        t1 == IF row.dtype = "object" THEN "CATEGORY" ELSE t0
        t2 == IF row.dtype \in {"int64", "float64"} THEN "NUMERIC" ELSE t1
        t3 == IF ContainsAny(row.feature_name, EmailPatterns)
              THEN "EMAIL_ADDRESS" ELSE t2
        t4 == IF ContainsAny(row.feature_name, IpPatterns)
              THEN "IP_ADDRESS" ELSE t3
        t5 == IF row.feature_name = EVENT_LABEL THEN "TARGET" ELSE t4
    IN  IF row.feature_name = EVENT_TIMESTAMP THEN "EVENT_TIMESTAMP" ELSE t5

\* Profiler.__map_feature_types: the assignments of one row, each one
\* overriding the ones before it.
FeatureType(row) ==
    LET t0 == "UNKOWN"
        t1 == IF row.dtype = "object" THEN "CATEGORY" ELSE t0
        t2 == IF row.dtype \in {"int64", "float64"} THEN "NUMERIC" ELSE t1
        t3 == IF ContainsAny(row.feature_name, IpPatterns)
              THEN "IP_ADDRESS" ELSE t2
        t4 == IF ContainsAny(row.feature_name, EmailPatterns)
              THEN "EMAIL_ADDRESS" ELSE t3
        t5 == IF row.feature_name = EVENT_LABEL THEN "TARGET" ELSE t4
    IN  IF row.feature_name = EVENT_TIMESTAMP THEN "EVENT_TIMESTAMP" ELSE t5

map_feature_types(df_stats) ==
    [i \in 1..Len(df_stats) |->
        [feature_type |-> FeatureType(df_stats[i])] @@ df_stats[i]]

\* Profiler.__screen_for_warnings: the assignments of one row, each one
\* overriding the ones before it.
FeatureWarning(row) ==
    LET w0 == "NO WARNING"
        w1 == IF row.nunique # 2 /\ row.feature_name = EVENT_LABEL
              THEN "LABEL WARNING, NON-BINARY EVENT LABEL" ELSE w0
        w2 == IF ~row.nunique_pct.nan /\ row.nunique_pct.v > 9000
                 /\ row.feature_type = "CATEGORY"
              THEN "EXCLUDE, GT 90% UNIQUE" ELSE w1
        w3 == IF ~row.null_pct.nan /\ row.null_pct.v > 2000
                 /\ row.null_pct.v <= 5000
              THEN "NULL WARNING, GT 20% MISSING" ELSE w2
        w4 == IF ~row.null_pct.nan /\ row.null_pct.v > 5000
              THEN "EXCLUDE, GT 50% MISSING" ELSE w3
    IN  IF row.dtype \in {"int64", "float64"}
           /\ ~row.nunique_pct.nan /\ row.nunique_pct.v < 2000
        THEN "LIKELY CATEGORICAL, NUMERIC w. LOW CARDINALITY" ELSE w4

screen_for_warnings(df_types) ==
    [i \in 1..Len(df_types) |->
        [feature_warning |-> FeatureWarning(df_types[i])] @@ df_types[i]]

\* Profiler.get_summary_stats_table(data, event_column, timestamp_column):
\* the table, or a KeyError when the event column is not in the data.  The
\* timestamp argument is not used.
get_summary_stats_table(df, event_col, timestamp_col) ==
    IF event_col \notin ColumnNames(df)
    THEN [kind |-> "raise", table |-> <<>>]
    ELSE [kind |-> "table",
          table |-> screen_for_warnings(
                        map_feature_types(
                            calculate_summary_stats(df, event_col)))]

\* The descriptor of a column with the storage type always STRING.
VariableOfString(row) ==
    [name |-> row.feature_name, variableType |-> row.feature_type,
     dataType |-> "STRING", defaultValue |-> "unknown"]

\* The descriptor __create_variables appends for one row of the table: the
\* default written is the literal "unknown", for numeric columns too.
VariableOf(row) ==
    [name         |-> row.feature_name,
     variableType |-> row.feature_type,
     dataType     |-> IF row.feature_type = "NUMERIC" THEN "FLOAT" ELSE "STRING",
     defaultValue |-> "unknown"]

\* Variable derivation that only leaves out the label column.
profiler_create_variables_keep_ts(df_stats, event_col, timestamp_col) ==
    LET Kept(row) == row.feature_name # event_col
        kept == SelectSeq(df_stats, Kept)
    IN  [i \in 1..Len(kept) |-> VariableOf(kept[i])]

\* Profiler.__create_variables(df_stats, event_column, timestamp_column):
\* one descriptor per row, in row order, the label and timestamp columns
\* left out.
profiler_create_variables(df_stats, event_col, timestamp_col) ==
    LET Kept(row) == row.feature_name \notin {event_col, timestamp_col}
        kept == SelectSeq(df_stats, Kept)
    IN  [i \in 1..Len(kept) |-> VariableOf(kept[i])]

\* Series.value_counts(): the values of a column, missing cells dropped,
\* with the number of cells holding each, most frequent first; the order
\* among values of equal count is left to the sort.
CountOf(cells, v) == Cardinality({i \in 1..Len(cells) : cells[i] = v})
ValuesOf(cells) == {cells[i] : i \in NonNull(cells)}
ValueCountOrders(cells) ==
    {q \in [1..Cardinality(ValuesOf(cells)) -> ValuesOf(cells)] :
        /\ \A i, j \in DOMAIN q : q[i] = q[j] => i = j
        /\ \A i, j \in DOMAIN q :
              i < j => CountOf(cells, q[i]) >= CountOf(cells, q[j])}

\* idxmin() / idxmax() of the counts: the first value, in the order of the
\* counts, that has the smallest / the largest count.
IdxMin(cells, order) ==
    order[CHOOSE i \in DOMAIN order :
             /\ \A j \in DOMAIN order :
                   CountOf(cells, order[i]) <= CountOf(cells, order[j])
             /\ \A j \in 1..(i - 1) :
                   CountOf(cells, order[j]) > CountOf(cells, order[i])]
IdxMax(cells, order) ==
    order[CHOOSE i \in DOMAIN order :
             /\ \A j \in DOMAIN order :
                   CountOf(cells, order[i]) >= CountOf(cells, order[j])
             /\ \A j \in 1..(i - 1) :
                   CountOf(cells, order[j]) < CountOf(cells, order[i])]

\* A label mapping with the two sides exchanged.
LabelMapperSwapped(cells, order) ==
    [FRAUD |-> IdxMax(cells, order), LEGIT |-> IdxMin(cells, order)]

\* The labelMapper of the schema (each side a one-element list).
LabelMapper(cells, order) ==
    [FRAUD |-> IdxMin(cells, order), LEGIT |-> IdxMax(cells, order)]

\* A variable list that also takes the columns classified TARGET.
ModelVariablesWithTarget(df) ==
    LET In(row) == row.feature_type \in
                     {"IP_ADDRESS", "EMAIL_ADDRESS", "CATEGORY", "NUMERIC",
                      "TARGET"}
        kept == SelectSeq(df, In)
    IN  [i \in 1..Len(kept) |-> kept[i].feature_name]

\* The modelVariables of the schema: the names of the rows of one of the
\* four types, in row order.
ModelVariables(df) ==
    LET In(row) == row.feature_type \in
                     {"IP_ADDRESS", "EMAIL_ADDRESS", "CATEGORY", "NUMERIC"}
        kept == SelectSeq(df, In)
    IN  [i \in 1..Len(kept) |-> kept[i].feature_name]

NoOutputs == [schema |-> <<>>, variables |-> <<>>, labels |-> <<>>]

\* Profiler.__extract_frauddetector_schema(data, df_warn, event_column,
\* timestamp_column, filter_warnings), given the order of the label counts.
\* With the filter on, line 184 reads df_stats, a name the method never
\* binds: NameError.  With no label value to count, idxmin raises
\* ValueError, after __create_labels has run.
extract_frauddetector_schema(df, df_warn, event_col, timestamp_col, filter, order) ==
    IF filter
    THEN [kind |-> "raise", logged |-> FALSE, out |-> NoOutputs]
    ELSE LET vs == profiler_create_variables(df_warn, event_col, timestamp_col)
             ls == profiler_create_labels(df, event_col)
             cells == Column(df, event_col).cells
         IN  IF ValuesOf(cells) = {}
             THEN [kind |-> "raise", logged |-> ls.logged, out |-> NoOutputs]
             ELSE [kind |-> "return", logged |-> ls.logged,
                   out |-> [schema |->
                               [modelVariables |-> ModelVariables(df_warn),
                                labelMapper |-> LabelMapper(cells, order)],
                            variables |-> vs,
                            labels |-> [kind |-> ls.kind, labels |-> ls.labels]]]

\* Profiler.get_frauddetector_inputs(data, event_column, timestamp_column,
\* filter_warnings): the summary table (a KeyError when the label column is
\* missing), then the schema, the variables and the labels.
get_frauddetector_inputs(df, event_col, timestamp_col, filter, order) ==
    LET t == get_summary_stats_table(df, event_col, EVENT_TIMESTAMP)
    IN  IF t.kind = "raise"
        THEN [kind |-> "raise", logged |-> FALSE, out |-> NoOutputs,
              table |-> <<>>]
        ELSE [table |-> t.table] @@
             extract_frauddetector_schema(df, t.table, event_col,
                                          timestamp_col, filter, order)

\* ------------------------------------------------------------ the machine
Min(a, b) == IF a < b THEN a ELSE b

\* The set of the elements of a list.
Range(q) == {q[i] : i \in DOMAIN q}

\* The instance after construction, the remote service empty.  Up to a
\* renaming there are two instances: the entity type and the event type bear
\* the same name, or different names.
FdInit ==
    /\ entity_type = "n1" /\ event_type \in Names /\ model_name = "n1"
    /\ fd_entityTypes = {} /\ fd_labels = {} /\ fd_variables = {}
    /\ fd_eventTypes = {} /\ fd_models = {} /\ fd_rules = {}
    /\ fd_status = "NONE"
    /\ pc = "idle" /\ op = "none"
    /\ variables = <<>> /\ labels = <<>>
    /\ outcomes_list = <<>> /\ rules_list = <<>> /\ wait = FALSE
    /\ log = <<>> /\ raised = FALSE /\ result = NoResult
    /\ existing_names = {}
    /\ obs1 = "unread" /\ obs2 = "unread" /\ polls = 0
    /\ fits = 0 /\ again = {}

\* No Profiler method applied yet.
ProfIdle ==
    /\ prof_op = "none" /\ prof_raised = FALSE /\ prof_logged = FALSE
    /\ labels_out = <<>> /\ table_out = <<>>
    /\ filter_warnings = FALSE /\ variables_out = <<>> /\ schema_out = <<>>

\* The callers of the concurrent creates: none has begun.
Callers == {1, 2}
RaceIdle ==
    /\ callers = [c \in Callers |->
                    [pc |-> "idle", op |-> "none", existing_names |-> {},
                     result |-> NoResult]]
    /\ requests = <<>>

\* No identifier drawn, no batch call made.
PredIdle == event_ids = <<>> /\ batch_in = <<>>

Init ==
    /\ FdInit
    /\ data = <<>> /\ event_column = <<>> /\ timestamp_column = <<>>
    /\ ProfIdle
    /\ RaceIdle
    /\ PredIdle

\* A call begins: its name and arguments.
Begin(o, vs, ls, outs, rs, wt) ==
    /\ op' = o /\ variables' = vs /\ labels' = ls
    /\ outcomes_list' = outs /\ rules_list' = rs /\ wait' = wt

NoObs == obs1' = "unread" /\ obs2' = "unread" /\ polls' = 0

\* The handler's run w becomes the state: the remote service as the requests
\* left it, the log, and the value the handler returned.
Finish(w) ==
    /\ fd_entityTypes' = w.ents /\ fd_labels' = w.labs
    /\ fd_variables' = w.vars /\ fd_eventTypes' = w.evts
    /\ fd_models' = w.mods /\ fd_rules' = w.rules /\ fd_status' = w.status
    /\ log' = w.log /\ raised' = w.raised
    /\ result' = (IF w.raised THEN NoResult ELSE w.result)
    /\ existing_names' = w.existing

\* History: create call o for the names ns (arguments vs, ls) begins; it
\* repeats the call before it when that was the same call and returned.
Again(o, vs, ls, ns) ==
    /\ again' = IF op = o /\ ~raised /\ variables = vs /\ labels = ls
                THEN ns ELSE {}
    /\ fits' = fits

NotAgain == again' = {} /\ fits' = fits

CreateEntityType ==
    /\ pc = "idle"
    /\ \E f \in 0..Len(create_entity_type(World, 0).log) :
          LET w == create_entity_type(World, f)
          IN Finish(w)
    /\ Again("create_entity_type", <<>>, <<>>, {entity_type})
    /\ Begin("create_entity_type", <<>>, <<>>, <<>>, <<>>, FALSE) /\ NoObs
    /\ UNCHANGED <<profVars, raceVars, predVars, instVars, pc>>

CreateEventType ==
    /\ pc = "idle"
    /\ \E f \in 0..Len(create_event_type(World, 0).log) :
          LET w == create_event_type(World, f)
          IN Finish(w)
    /\ Again("create_event_type", <<>>, <<>>, {event_type})
    /\ Begin("create_event_type", <<>>, <<>>, <<>>, <<>>, FALSE) /\ NoObs
    /\ UNCHANGED <<profVars, raceVars, predVars, instVars, pc>>

CreateModel ==
    /\ pc = "idle"
    /\ \E f \in 0..Len(create_model(World, 0).log) :
          LET w == create_model(World, f)
          IN Finish(w)
    /\ Again("create_model", <<>>, <<>>, {model_name})
    /\ Begin("create_model", <<>>, <<>>, <<>>, <<>>, FALSE) /\ NoObs
    /\ UNCHANGED <<profVars, raceVars, predVars, instVars, pc>>

CreateVariables ==
    /\ pc = "idle"
    /\ \E vs \in NameLists :
          /\ \E f \in 0..Len(create_variables(World, vs, 0).log) :
                LET w == create_variables(World, vs, f)
                IN Finish(w)
          /\ Again("create_variables", vs, <<>>, Range(vs))
          /\ Begin("create_variables", vs, <<>>, <<>>, <<>>, FALSE)
    /\ NoObs
    /\ UNCHANGED <<profVars, raceVars, predVars, instVars, pc>>

CreateLabels ==
    /\ pc = "idle"
    /\ \E ls \in NameLists :
          /\ \E f \in 0..Len(create_labels(World, ls, 0).log) :
                LET w == create_labels(World, ls, f)
                IN Finish(w)
          /\ Again("create_labels", <<>>, ls, Range(ls))
          /\ Begin("create_labels", <<>>, ls, <<>>, <<>>, FALSE)
    /\ NoObs
    /\ UNCHANGED <<profVars, raceVars, predVars, instVars, pc>>

DeleteEntityType ==
    /\ pc = "idle"
    /\ \E f \in 0..1 : Finish(delete_entity_type(World, f))
    /\ NotAgain
    /\ Begin("delete_entity_type", <<>>, <<>>, <<>>, <<>>, FALSE) /\ NoObs
    /\ UNCHANGED <<profVars, raceVars, predVars, instVars, pc>>

DeleteEventType ==
    /\ pc = "idle"
    /\ \E f \in 0..1 : Finish(delete_event_type(World, f))
    /\ NotAgain
    /\ Begin("delete_event_type", <<>>, <<>>, <<>>, <<>>, FALSE) /\ NoObs
    /\ UNCHANGED <<profVars, raceVars, predVars, instVars, pc>>

DeleteModel ==
    /\ pc = "idle"
    /\ \E f \in 0..1 : Finish(delete_model(World, f))
    /\ NotAgain
    /\ Begin("delete_model", <<>>, <<>>, <<>>, <<>>, FALSE) /\ NoObs
    /\ UNCHANGED <<profVars, raceVars, predVars, instVars, pc>>

DeleteVariables ==
    /\ pc = "idle"
    /\ \E vs \in NameLists :
          /\ \E f \in 0..Len(vs) : Finish(delete_variables(World, vs, 1, f))
          /\ NotAgain
          /\ Begin("delete_variables", vs, <<>>, <<>>, <<>>, FALSE)
    /\ NoObs
    /\ UNCHANGED <<profVars, raceVars, predVars, instVars, pc>>

DeleteLabels ==
    /\ pc = "idle"
    /\ \E ls \in NameLists :
          /\ \E f \in 0..Len(ls) : Finish(delete_labels(World, ls, 1, f))
          /\ NotAgain
          /\ Begin("delete_labels", <<>>, ls, <<>>, <<>>, FALSE)
    /\ NoObs
    /\ UNCHANGED <<profVars, raceVars, predVars, instVars, pc>>

\* fit(data_schema, data_location, role, variables, labels, wait) up to its
\* waiting loop.  With wait=False, or when a request raised, the call ends.
Fit ==
    /\ pc = "idle" /\ fits < MaxFits
    /\ \E vs \in FitLists, ls \in FitLists, wt \in BOOLEAN :
          /\ \E f \in 0..Len(fit_setup(World, vs, ls, 0).log) :
                LET w == fit_setup(World, vs, ls, f)
                IN /\ Finish(IF wt THEN [w EXCEPT !.result = NoResult] ELSE w)
                   /\ pc' = IF ~w.raised /\ wt THEN "fit_poll" ELSE "idle"
          /\ Begin("fit", vs, ls, <<>>, <<>>, wt)
    /\ again' = {} /\ fits' = fits + 1
    /\ NoObs
    /\ UNCHANGED <<profVars, raceVars, predVars, instVars>>

\* One round of fit's `while wait` loop: response = get_model_version(...) (a
\* missing version or a failing request raises out of fit), then sleep and
\* poll again, or break and return the response of this poll.  Nothing is
\* returned while the loop goes on.
FitPoll ==
    /\ pc = "fit_poll"
    /\ \E bad \in BOOLEAN :
          LET fails == bad \/ fd_status = "NONE"
          IN /\ obs1' = IF fails THEN "error" ELSE fd_status
             /\ raised' = fails
             /\ pc' = IF fails \/ PollExit(fd_status, polls + 1)
                      THEN "idle" ELSE "fit_poll"
             /\ result' = IF ~fails /\ PollExit(fd_status, polls + 1)
                          THEN [status |-> fd_status] ELSE NoResult
    /\ polls' = Min(polls + 1, MaxPolls)
    /\ UNCHANGED <<profVars, raceVars, predVars, instVars, fdVars, histVars, op, variables, labels,
                   outcomes_list, rules_list, wait, log,
                   existing_names, obs2>>

\* activate(outcomes_list): the first read of model_status.  The property
\* turns a missing version into None ("NONE"); another failure propagates.
ActivateCheck1 ==
    /\ pc = "idle"
    /\ \E outs \in NameLists : Begin("activate", <<>>, <<>>, outs, <<>>, FALSE)
    /\ \E bad \in BOOLEAN :
          /\ obs1' = IF bad THEN "error" ELSE fd_status
          /\ raised' = bad
          /\ pc' = IF bad THEN "idle"
                   ELSE IF ActivateFirstPasses(fd_status) THEN "activate_calls"
                   ELSE "activate_check2"
    /\ obs2' = "unread" /\ polls' = 0
    /\ log' = <<>> /\ result' = NoResult /\ NotAgain
    /\ UNCHANGED <<profVars, raceVars, predVars, instVars, fdVars, existing_names>>

\* activate: the second read of model_status; EnvironmentError unless ACTIVE.
ActivateCheck2 ==
    /\ pc = "activate_check2"
    /\ \E bad \in BOOLEAN :
          /\ obs2' = IF bad THEN "error" ELSE fd_status
          /\ raised' = (bad \/ ~ActivateSecondPasses(fd_status))
          /\ pc' = IF ~bad /\ ActivateSecondPasses(fd_status)
                   THEN "activate_calls" ELSE "idle"
    /\ UNCHANGED <<profVars, raceVars, predVars, instVars, fdVars, histVars, op, variables, labels,
                   outcomes_list, rules_list, wait, log, result,
                   existing_names, obs1, polls>>

\* activate: the requests after the guard.
ActivateCalls ==
    /\ pc = "activate_calls"
    /\ \E f \in 0..Len(activate_calls(World, outcomes_list, 0).log) :
          Finish(activate_calls(World, outcomes_list, f))
    /\ pc' = "idle"
    /\ UNCHANGED <<profVars, raceVars, predVars, instVars, histVars, op, variables, labels, outcomes_list,
                   rules_list, wait, obs1, obs2, polls>>

\* deploy(rules_list): the read of model_status; EnvironmentError unless ACTIVE.
DeployCheck ==
    /\ pc = "idle"
    /\ \E rs \in NameLists : Begin("deploy", <<>>, <<>>, <<>>, rs, FALSE)
    /\ \E bad \in BOOLEAN :
          /\ obs1' = IF bad THEN "error" ELSE fd_status
          /\ raised' = (bad \/ ~DeployPasses(fd_status))
          /\ pc' = IF ~bad /\ DeployPasses(fd_status)
                   THEN "deploy_calls" ELSE "idle"
    /\ obs2' = "unread" /\ polls' = 0
    /\ log' = <<>> /\ result' = NoResult /\ NotAgain
    /\ UNCHANGED <<profVars, raceVars, predVars, instVars, fdVars, existing_names>>

\* deploy: the requests after the guard.
DeployCalls ==
    /\ pc = "deploy_calls"
    /\ \E nokey1 \in BOOLEAN, nokey2 \in BOOLEAN :
          \E f \in 0..Len(deploy_calls(World, rules_list, FALSE, FALSE, 0).log) :
             Finish(deploy_calls(World, rules_list, nokey1, nokey2, f))
    /\ pc' = "idle"
    /\ UNCHANGED <<profVars, raceVars, predVars, instVars, histVars, op, variables, labels, outcomes_list,
                   rules_list, wait, obs1, obs2, polls>>

\* FraudDetector.create_rules(rules), called directly; obs1 keeps what the
\* lookup of the existing rules came to.
CreateRules ==
    /\ pc = "idle"
    /\ \E rs \in NameLists, nokey \in BOOLEAN :
          /\ \E f \in 0..Len(create_rules(World, rs, FALSE, 0).log) :
                Finish(create_rules(World, rs, nokey, f))
          /\ obs1' = IF nokey THEN "KeyError" ELSE "listed"
          /\ Begin("create_rules", <<>>, <<>>, <<>>, rs, FALSE)
    /\ obs2' = "unread" /\ polls' = 0 /\ NotAgain
    /\ UNCHANGED <<profVars, raceVars, predVars, instVars, pc>>

\* FraudDetector.delete_rules(rules)
DeleteRules ==
    /\ pc = "idle"
    /\ \E rs \in NameLists :
          /\ \E bad \in SUBSET (1..Len(rs)) :
                Finish(delete_rules(World, rs, 1, bad))
          /\ Begin("delete_rules", <<>>, <<>>, <<>>, rs, FALSE)
    /\ NoObs /\ NotAgain
    /\ UNCHANGED <<profVars, raceVars, predVars, instVars, pc>>

\* set_model_version_inactive(), called directly.
SetModelVersionInactive ==
    /\ pc = "idle"
    /\ \E f \in 0..1 : Finish(set_model_version_inactive(World, f))
    /\ Begin("set_model_version_inactive", <<>>, <<>>, <<>>, <<>>, FALSE)
    /\ NoObs /\ NotAgain
    /\ UNCHANGED <<profVars, raceVars, predVars, instVars, pc>>

\* delete_model_version(model_version), called directly.
DeleteModelVersion ==
    /\ pc = "idle"
    /\ \E other \in BOOLEAN, f \in 0..1 :
          Finish(delete_model_version(World, other, f))
    /\ Begin("delete_model_version", <<>>, <<>>, <<>>, <<>>, FALSE)
    /\ NoObs /\ NotAgain
    /\ UNCHANGED <<profVars, raceVars, predVars, instVars, pc>>

\* The remote service moves the model version to another status (training
\* progresses, another client acts on it).
RemoteStatusChange ==
    /\ \E s \in Statuses \ {fd_status} : fd_status' = s
    /\ UNCHANGED <<profVars, raceVars, predVars, instVars, callVars, histVars, fd_entityTypes, fd_labels,
                   fd_variables, fd_eventTypes, fd_models, fd_rules>>

\* Provisioning: the create and delete calls.
Next ==
    \/ CreateEntityType \/ CreateEventType \/ CreateModel
    \/ CreateVariables \/ CreateLabels
    \/ DeleteEntityType \/ DeleteEventType \/ DeleteModel
    \/ DeleteVariables \/ DeleteLabels

Spec == Init /\ [][Next]_vars

\* The variables alone: created, deleted, created again.
VarNext == CreateVariables \/ DeleteVariables

VarSpec == Init /\ [][VarNext]_vars

\* Training: fit and its waiting loop, while the service trains.
TrainNext == Fit \/ FitPoll \/ RemoteStatusChange

TrainSpec == Init /\ [][TrainNext]_vars

\* The waiting loop keeps polling: it is the only thing the caller does.
FairTrainSpec == TrainSpec /\ WF_vars(FitPoll)

\* Activation and deployment, while the service changes the version's status.
LifeNext ==
    \/ ActivateCheck1 \/ ActivateCheck2 \/ ActivateCalls
    \/ DeployCheck \/ DeployCalls
    \/ SetModelVersionInactive \/ DeleteModelVersion
    \/ RemoteStatusChange

LifeSpec == Init /\ [][LifeNext]_vars

\* Two callers (two instances built with the same arguments, or two threads
\* on one) run create_entity_type or create_event_type at the same time.  A
\* call is two steps with the other caller free to act in between: the
\* listing of the existing names, then the test of the name against that
\* listing with the put request or the "skipped" entry.
RaceName(o) == IF o = "create_entity_type" THEN entity_type ELSE event_type
RaceRemote(o) == IF o = "create_entity_type" THEN fd_entityTypes ELSE fd_eventTypes

\* existing_names = [... self.all_entities / self.all_events ...]
RaceList(c) ==
    /\ callers[c].pc = "idle"
    /\ \E o \in {"create_entity_type", "create_event_type"} :
          /\ callers' = [callers EXCEPT ![c] =
                [pc |-> "listed", op |-> o, existing_names |-> RaceRemote(o),
                 result |-> NoResult]]
          /\ requests' = Append(requests,
                [caller |-> c,
                 api |-> IF o = "create_entity_type"
                         THEN "get_entity_types" ELSE "get_event_types",
                 name |-> "*"])
    /\ UNCHANGED <<instVars, fdVars, callVars, histVars, profVars, predVars>>

\* if name not in existing_names: put ... else: "skipped"
RaceCreate(c) ==
    /\ callers[c].pc = "listed"
    /\ LET o == callers[c].op
           name == RaceName(o)
           fresh == name \notin callers[c].existing_names
           api == IF o = "create_entity_type"
                  THEN "put_entity_type" ELSE "put_event_type"
       IN  /\ callers' = [callers EXCEPT ![c].pc = "done",
                 ![c].result = IF fresh THEN Put(NoResult, name, "200")
                               ELSE Put(NoResult, event_type, "skipped")]
           /\ requests' = IF fresh
                 THEN Append(requests, [caller |-> c, api |-> api, name |-> name])
                 ELSE requests
           /\ fd_entityTypes' = IF fresh /\ o = "create_entity_type"
                                THEN fd_entityTypes \cup {name} ELSE fd_entityTypes
           /\ fd_eventTypes' = IF fresh /\ o = "create_event_type"
                               THEN fd_eventTypes \cup {name} ELSE fd_eventTypes
    /\ UNCHANGED <<fd_labels, fd_variables, fd_models, fd_rules, fd_status>>
    /\ UNCHANGED <<instVars, callVars, histVars, profVars, predVars>>

RaceNext == \E c \in Callers : RaceList(c) \/ RaceCreate(c)

RaceSpec == Init /\ [][RaceNext]_vars

\* A call of predict with some event; the service answers as it likes.
Predict ==
    /\ pc = "idle"
    /\ Len(event_ids) < MaxIds
    /\ \E a \in Answers :
          \E w \in {predict(PredWorld, 0, a)} :
             /\ event_ids' = w.ids /\ log' = w.log /\ raised' = w.raised
             /\ result' = w.result
    /\ batch_in' = <<>>
    /\ Begin("predict", <<>>, <<>>, <<>>, <<>>, FALSE)
    /\ NoObs /\ NotAgain
    /\ UNCHANGED <<instVars, fdVars, profVars, raceVars, pc, existing_names>>

\* A call of batch_predict: events is None, a list or a DataFrame; df is read
\* by the `df is None` test only, which runs when events is None.
BatchPredict ==
    /\ pc = "idle"
    /\ \E n \in 0..Min(MaxBatch, MaxIds - Len(event_ids)) :
       \E events \in {NoneArg, ListArg} \cup DataFrames(n) :
          \E df \in IF events.kind = "None"
                    THEN {NoneArg} \cup PlainFrames ELSE {NoneArg} :
             /\ \E w \in {batch_predict(PredWorld, events, df)} :
                   /\ event_ids' = w.ids /\ log' = w.log
                   /\ raised' = w.raised /\ result' = w.result
             /\ batch_in' = [events |-> events, df |-> df]
    /\ Begin("batch_predict", <<>>, <<>>, <<>>, <<>>, FALSE)
    /\ NoObs /\ NotAgain
    /\ UNCHANGED <<instVars, fdVars, profVars, raceVars, pc, existing_names>>

PredictNext == Predict \/ BatchPredict

PredictSpec == Init /\ [][PredictNext]_vars

\* The rules of the detector: created and deleted.
RulesNext == CreateRules \/ DeleteRules

RulesSpec == Init /\ [][RulesNext]_vars

\* ------------------------------------------------------ the profiler's caller
\* The datasets handed to the Profiler: a label column of every content up
\* to MaxRows rows, or a label column and a column of every dtype and content
\* (StatsData below), or up to MaxCols columns of every name and dtype (two
\* rows each) with the label column before them, after them or missing; the
\* label and timestamp arguments are the defaults or names of the caller's
\* own.
LabelData ==
    /\ event_column \in EventColumns
    /\ timestamp_column = EVENT_TIMESTAMP
    /\ \E cells \in UNION {[1..n -> Cells] : n \in 0..MaxRows} :
          data = <<[name |-> event_column, dtype |-> "object", cells |-> cells]>>

TypedData ==
    /\ event_column \in EventColumns
    /\ timestamp_column \in TimestampColumns
    /\ \E k \in 0..MaxCols :
       \E names \in [1..k -> ColNames \ {event_column}],
          dtypes \in [1..k -> Dtypes],
          place \in {"first", "last", "missing"} :
          /\ \A i, j \in 1..k : names[i] = names[j] => i = j
          /\ LET others == [i \in 1..k |->
                               [name |-> names[i], dtype |-> dtypes[i],
                                cells |-> <<"a", "b">>]]
                 target == <<[name |-> event_column, dtype |-> "object",
                              cells |-> <<"a", "b">>]>>
             IN  data = CASE place = "first" -> target \o others
                          [] place = "last" -> others \o target
                          [] OTHER -> others

\* A label column without missing cells and one more column of every dtype
\* and content (integer and boolean columns hold no missing cell), up to
\* MaxRows rows.
PlainName == <<"v", "a", "l", "u", "e">>
StatCells == {"a", "b", Null}
StatsData ==
    /\ event_column \in EventColumns
    /\ timestamp_column = EVENT_TIMESTAMP
    /\ \E n \in 0..MaxRows :
       \E target \in [1..n -> {"a", "b"}], cells \in [1..n -> StatCells],
          dtype \in Dtypes :
          /\ dtype \in {"int64", "bool"} => \A i \in 1..n : cells[i] # Null
          /\ data = <<[name |-> PlainName, dtype |-> dtype, cells |-> cells],
                      [name |-> event_column, dtype |-> "object",
                       cells |-> target]>>

ProfInit ==
    /\ FdInit /\ event_type = "n1"
    /\ ProfIdle /\ RaceIdle /\ PredIdle
    /\ (LabelData \/ TypedData \/ StatsData)

\* Profiler.__create_labels(data, event_column)
ProfilerCreateLabels ==
    /\ prof_op = "none"
    /\ LET r == profiler_create_labels(data, event_column)
       IN  /\ prof_op' = "create_labels"
           /\ prof_raised' = (r.kind = "raise")
           /\ prof_logged' = r.logged
           /\ labels_out' = [kind |-> r.kind, labels |-> r.labels]
    /\ UNCHANGED <<data, event_column, timestamp_column, table_out,
                   filter_warnings, variables_out, schema_out>>
    /\ UNCHANGED <<instVars, fdVars, callVars, histVars, raceVars, predVars>>

\* Profiler.get_summary_stats_table(data, event_column, timestamp_column)
GetSummaryStatsTable ==
    /\ prof_op = "none"
    /\ LET r == get_summary_stats_table(data, event_column, timestamp_column)
       IN  /\ prof_op' = "get_summary_stats_table"
           /\ prof_raised' = (r.kind = "raise")
           /\ table_out' = r.table
    /\ UNCHANGED <<data, event_column, timestamp_column, prof_logged,
                   labels_out, filter_warnings, variables_out, schema_out>>
    /\ UNCHANGED <<instVars, fdVars, callVars, histVars, raceVars, predVars>>

\* Profiler.__create_variables on the table get_summary_stats_table returned
ProfilerCreateVariables ==
    /\ prof_op = "get_summary_stats_table" /\ ~prof_raised
    /\ prof_op' = "create_variables"
    /\ variables_out' =
          profiler_create_variables(table_out, event_column, timestamp_column)
    /\ UNCHANGED <<data, event_column, timestamp_column, prof_raised,
                   prof_logged, labels_out, table_out, filter_warnings,
                   schema_out>>
    /\ UNCHANGED <<instVars, fdVars, callVars, histVars, raceVars, predVars>>

\* Profiler.get_frauddetector_inputs(data, event_column, timestamp_column,
\* filter_warnings)
GetFrauddetectorInputs ==
    /\ prof_op = "none"
    /\ \E fw \in BOOLEAN :
       \E order \in (IF event_column \in ColumnNames(data)
                     THEN ValueCountOrders(Column(data, event_column).cells)
                     ELSE {<<>>}) :
          \E r \in {get_frauddetector_inputs(data, event_column,
                                            timestamp_column, fw, order)} :
              /\ prof_op' = "get_frauddetector_inputs"
              /\ filter_warnings' = fw
              /\ prof_raised' = (r.kind = "raise")
              /\ prof_logged' = r.logged
              /\ table_out' = r.table
              /\ schema_out' = r.out.schema
              /\ variables_out' = r.out.variables
              /\ labels_out' = r.out.labels
    /\ UNCHANGED <<data, event_column, timestamp_column>>
    /\ UNCHANGED <<instVars, fdVars, callVars, histVars, raceVars, predVars>>

ProfNext ==
    \/ ProfilerCreateLabels
    \/ GetSummaryStatsTable
    \/ ProfilerCreateVariables
    \/ GetFrauddetectorInputs
ProfSpec == ProfInit /\ [][ProfNext]_vars

\* =============================================================== claims
CreateOps == {"create_entity_type", "create_event_type", "create_variables",
              "create_labels", "create_model"}

\* The resource names the last create call was asked to create.
AskedNames ==
    CASE op = "create_entity_type" -> {entity_type}
      [] op = "create_event_type" -> {event_type}
      [] op = "create_model" -> {model_name}
      [] op = "create_variables" -> Range(variables)
      [] op = "create_labels" -> Range(labels)
      [] OTHER -> {}

\* The requests of the log that asked for the creation of name n.
CreateRequestsFor(n) == {i \in DOMAIN log : IsCreate(log[i]) /\ log[i].name = n}

\* C1: a create call that repeats the call before it (same call, same names,
\* the first one returned, nothing deleted in between) and returns yields
\* "skipped" for each of those names and issues no creation request for it.
C1_SecondCreateSkipped ==
    (pc = "idle" /\ op \in CreateOps /\ ~raised) =>
        \A n \in again :
            /\ n \in DOMAIN result
            /\ result[n] = "skipped"
            /\ CreateRequestsFor(n) = {}

\* C6: a create call that returns yields a status map with exactly one entry
\* per name it was asked to create, keyed by that name: "skipped" when the
\* name was in the listing, the request's status code otherwise.
C6_StatusMapPerName ==
    (pc = "idle" /\ op \in CreateOps /\ ~raised) =>
        /\ DOMAIN result = AskedNames
        /\ \A n \in AskedNames :
              result[n] = IF n \in existing_names THEN "skipped" ELSE "200"

\* The step of fit a request belongs to: entity type, labels, variables,
\* event type, model, model version.
Step(api) ==
    CASE api \in {"get_entity_types", "put_entity_type"} -> 1
      [] api \in {"get_labels", "put_label"} -> 2
      [] api \in {"get_variables", "create_variable"} -> 3
      [] api \in {"get_event_types", "put_event_type"} -> 4
      [] api \in {"get_models", "create_model"} -> 5
      [] api = "create_model_version" -> 6
      [] OTHER -> 0

\* Whether the resource a successful creation request made is in the service.
Present(r) ==
    CASE r.api = "put_entity_type" -> r.name \in fd_entityTypes
      [] r.api = "put_label" -> r.name \in fd_labels
      [] r.api = "create_variable" -> r.name \in fd_variables
      [] r.api = "put_event_type" -> r.name \in fd_eventTypes
      [] r.api = "create_model" -> r.name \in fd_models
      [] OTHER -> TRUE

\* C4: the requests of fit go entity type, labels, variables, event type,
\* model, model version, in this order; a failing request is the last one
\* issued and fit raises; what the earlier steps created is still there; a
\* fit that no request failed went through all six steps.
C4_SetupOrderNoRollback ==
    op = "fit" =>
        /\ \A i, j \in DOMAIN log :
              i < j => /\ Step(log[i].api) >= 1
                       /\ Step(log[i].api) <= Step(log[j].api)
        /\ \A i \in DOMAIN log :
              ~log[i].ok => i = Len(log) /\ raised /\ pc = "idle"
        /\ \A i \in DOMAIN log :
              (log[i].ok /\ IsCreate(log[i])) => Present(log[i])
        /\ (\A i \in DOMAIN log : log[i].ok) =>
              {Step(log[i].api) : i \in DOMAIN log} = 1..6

\* C4's case: the event-type step failed after the entity type, a label and
\* a variable were created; they are there, and no model was asked for.
C4_Witness ==
    /\ op = "fit" /\ raised /\ Len(log) >= 4
    /\ log[Len(log)].api = "put_event_type" /\ ~log[Len(log)].ok
    /\ \E i \in DOMAIN log : log[i].api = "put_entity_type" /\ log[i].ok
    /\ \E i \in DOMAIN log : log[i].api = "put_label" /\ log[i].ok
    /\ \E i \in DOMAIN log : log[i].api = "create_variable" /\ log[i].ok
    /\ entity_type \in fd_entityTypes /\ fd_labels # {} /\ fd_variables # {}
    /\ fd_models = {}

\* C5: when the version's status eventually stays off TRAINING_IN_PROGRESS, a
\* waiting fit leaves its loop; and it leaves the loop only on a poll that
\* did not observe TRAINING_IN_PROGRESS (no timeout, no poll limit).
C5_FitWaitsForTraining ==
    /\ (<>[](fd_status # "TRAINING_IN_PROGRESS"))
          => [](pc = "fit_poll" => <>(pc = "idle"))
    /\ [][(pc = "fit_poll" /\ pc' # "fit_poll")
             => obs1' # "TRAINING_IN_PROGRESS"]_vars

\* C5's case: fit returned after polls that saw the training in progress.
C5_Witness ==
    /\ op = "fit" /\ wait /\ pc = "idle" /\ ~raised
    /\ polls >= 3 /\ obs1 = "TRAINING_COMPLETE"

\* The requests activate issues after its guard.
ActivateRequests ==
    {i \in DOMAIN log : log[i].api \in {"put_detector", "put_outcome",
                                        "update_model_version_status"}}

\* C2: activate issues put_detector, put_outcome and
\* update_model_version_status only when a read of its status check saw
\* TRAINING_COMPLETE or ACTIVE; when no read saw either (a missing version
\* included) it has raised and issued none of them.
C2_ActivateGuard ==
    op = "activate" =>
        /\ (pc = "activate_calls" \/ ActivateRequests # {}) =>
              {obs1, obs2} \cap {"TRAINING_COMPLETE", "ACTIVE"} # {}
        /\ (pc = "idle" /\ {obs1, obs2} \cap {"TRAINING_COMPLETE", "ACTIVE"} = {})
              => (raised /\ ActivateRequests = {})

\* C2's case: the first read saw a version still in training, the second one
\* saw it ACTIVE, and activate issued its requests.
C2_Witness ==
    /\ op = "activate" /\ pc = "idle" /\ ~raised
    /\ obs1 = "TRAINING_IN_PROGRESS" /\ obs2 = "ACTIVE"
    /\ Len(outcomes_list) = 2
    /\ \E i \in DOMAIN log : log[i].api = "put_outcome" /\ log[i].ok
    /\ log[Len(log)].api = "update_model_version_status" /\ log[Len(log)].ok

\* The rule and detector-version creations deploy issues after its guard.
DeployRequests ==
    {i \in DOMAIN log : log[i].api \in {"create_rule", "create_detector_version"}}

\* C3: deploy issues create_rule and create_detector_version only when its
\* status check saw ACTIVE; on any other status (a missing version included)
\* it has raised and issued neither, whatever rules list it was given.
C3_DeployGuard ==
    op = "deploy" =>
        /\ (pc = "deploy_calls" \/ DeployRequests # {}) => obs1 = "ACTIVE"
        /\ (pc = "idle" /\ obs1 # "ACTIVE") => (raised /\ DeployRequests = {})

\* C3's case: a rules list was given, the check saw TRAINING_COMPLETE, and
\* deploy raised without a request.
C3_Witness ==
    /\ op = "deploy" /\ pc = "idle" /\ raised
    /\ obs1 = "TRAINING_COMPLETE" /\ Len(rules_list) = 2 /\ log = <<>>

\* ---------------------------------------------------------------- labels
\* The distinct values of the designated label column, the missing value
\* counted as one.
LabelColumnPresent == event_column \in ColumnNames(data)
LabelCells == Column(data, event_column).cells
LabelValues == {LabelCells[i] : i \in 1..Len(LabelCells)}
FirstRow(v) ==
    CHOOSE i \in 1..Len(LabelCells) :
        LabelCells[i] = v /\ \A j \in 1..(i - 1) : LabelCells[j] # v
LabelsDerived == prof_op = "create_labels" /\ LabelColumnPresent

\* C7: label derivation succeeds only on exactly two distinct values: on a
\* label column with any other number of distinct values (one as well as
\* three or more) it signals the error and returns no labels.
C7_LabelsNeedExactlyTwo ==
    (LabelsDerived /\ (Cardinality(LabelValues) = 1 \/ Cardinality(LabelValues) >= 3))
        => (labels_out.kind = "None" /\ prof_logged)

\* C8: on a label column with exactly two distinct values, label derivation
\* returns exactly two label descriptors, one per value, ordered by the
\* first row each value occurs in.
C8_TwoLabelsInFirstOccurrenceOrder ==
    (LabelsDerived /\ Cardinality(LabelValues) = 2)
        => /\ ~prof_raised
           /\ labels_out.kind = "list"
           /\ Len(labels_out.labels) = 2
           /\ Range(labels_out.labels) = LabelValues
           /\ FirstRow(labels_out.labels[1]) < FirstRow(labels_out.labels[2])

\* Two values whose first occurrences are neither in alphabetical order nor
\* in order of last occurrence.
C8_Witness ==
    /\ LabelsDerived
    /\ LabelCells = <<"b", "a", "b">>
    /\ labels_out = [kind |-> "list", labels |-> <<"b", "a">>]

\* C9: on a label column with three or more distinct values, label
\* derivation returns no labels and does not raise; the failure is only
\* logged.
C9_ThreeOrMoreLogged ==
    (LabelsDerived /\ Cardinality(LabelValues) >= 3)
        => /\ labels_out = [kind |-> "None", labels |-> <<>>]
           /\ ~prof_raised
           /\ prof_logged

C9_Witness ==
    /\ LabelsDerived
    /\ Cardinality(LabelValues) = 3
    /\ labels_out.kind = "None" /\ prof_logged /\ ~prof_raised

\* ---------------------------------------------------------- feature types
\* C10: whatever columns are designated as label column and timestamp
\* column, the summary table classifies the designated label column TARGET
\* and the designated timestamp column EVENT_TIMESTAMP, overriding the
\* dtype-based and name-based classification.
C10_DesignatedColumnsClassified ==
    (prof_op = "get_summary_stats_table" /\ ~prof_raised)
        => \A i \in 1..Len(table_out) :
              /\ table_out[i].feature_name = event_column
                    => table_out[i].feature_type = "TARGET"
              /\ table_out[i].feature_name = timestamp_column
                    => table_out[i].feature_type = "EVENT_TIMESTAMP"

IP_ADDRESS_NAME == <<"i", "p", "_", "a", "d", "d", "r", "e", "s", "s">>
EMAIL_NAME == <<"e", "m", "a", "i", "l">>
TableReturned == prof_op = "get_summary_stats_table" /\ ~prof_raised

\* C11 as stated: every column whose name contains "ip_address" is
\* classified IP_ADDRESS, whatever its dtype and whatever else its name
\* contains.
C11_IpAddressAlways ==
    TableReturned
        => \A i \in 1..Len(table_out) :
              Contains(table_out[i].feature_name, IP_ADDRESS_NAME)
                  => table_out[i].feature_type = "IP_ADDRESS"

\* C11, amended: every column whose name contains "ip_address" and does not
\* contain "email" is classified IP_ADDRESS, whatever its dtype (the e-mail
\* rule comes later and overrides the IP rule).
C11_IpAddressUnlessEmail ==
    TableReturned
        => \A i \in 1..Len(table_out) :
              (/\ Contains(table_out[i].feature_name, IP_ADDRESS_NAME)
               /\ ~Contains(table_out[i].feature_name, EMAIL_NAME))
                  => table_out[i].feature_type = "IP_ADDRESS"

\* A numeric column named "ip_address", classified by its name.
C11_Witness ==
    /\ TableReturned
    /\ \E i \in 1..Len(table_out) :
          /\ table_out[i].feature_name = IP_ADDRESS_NAME
          /\ table_out[i].dtype = "int64"
          /\ table_out[i].feature_type = "IP_ADDRESS"

\* C12: every column whose name contains "email" is classified
\* EMAIL_ADDRESS, whatever its dtype.
C12_EmailAlways ==
    TableReturned
        => \A i \in 1..Len(table_out) :
              Contains(table_out[i].feature_name, EMAIL_NAME)
                  => table_out[i].feature_type = "EMAIL_ADDRESS"

\* A numeric column whose name contains "email" after "ip_address".
C12_Witness ==
    /\ TableReturned
    /\ \E i \in 1..Len(table_out) :
          /\ Contains(table_out[i].feature_name, EMAIL_NAME)
          /\ Contains(table_out[i].feature_name, IP_ADDRESS_NAME)
          /\ table_out[i].dtype = "float64"
          /\ table_out[i].feature_type = "EMAIL_ADDRESS"

\* -------------------------------------------------------------- variables
VariablesDerived == prof_op = "create_variables"
Designated == {event_column, timestamp_column}
DescriptorsOf(name) ==
    {i \in 1..Len(variables_out) : variables_out[i].name = name}
RowOf(name) == table_out[CHOOSE i \in 1..Len(table_out) :
                            table_out[i].feature_name = name]

\* C13: whatever the designated label and timestamp column names, the list
\* of variable descriptors has no descriptor named after the label column or
\* the timestamp column, and exactly one descriptor for every other column
\* of the dataset.
C13_VariablesExcludeDesignated ==
    VariablesDerived
        => /\ \A i \in 1..Len(variables_out) :
                 /\ variables_out[i].name \notin Designated
                 /\ variables_out[i].name \in ColumnNames(data)
           /\ \A name \in ColumnNames(data) \ Designated :
                 Cardinality(DescriptorsOf(name)) = 1

\* A dataset holding a label column and a timestamp column of the caller's
\* own names and one more column: one descriptor comes out.
C13_Witness ==
    /\ VariablesDerived
    /\ event_column # EVENT_LABEL /\ timestamp_column # EVENT_TIMESTAMP
    /\ Designated \subseteq ColumnNames(data)
    /\ Len(data) = 3
    /\ Len(variables_out) = 1

\* C14: every variable descriptor has the default value "unknown", the
\* storage type FLOAT exactly when its column is classified NUMERIC and
\* STRING otherwise, and the variable type equal to the classification of
\* its column.
C14_DescriptorFields ==
    VariablesDerived
        => \A i \in 1..Len(variables_out) :
              LET v == variables_out[i]
                  row == RowOf(v.name)
              IN  /\ v.defaultValue = "unknown"
                  /\ v.dataType \in {"FLOAT", "STRING"}
                  /\ v.dataType = "FLOAT" <=> row.feature_type = "NUMERIC"
                  /\ v.variableType = row.feature_type

\* A numeric column and a non-numeric one, both described.
C14_Witness ==
    /\ VariablesDerived
    /\ \E i, j \in 1..Len(variables_out) :
          /\ variables_out[i].variableType = "NUMERIC"
          /\ variables_out[i].dataType = "FLOAT"
          /\ variables_out[i].defaultValue = "unknown"
          /\ variables_out[j].variableType = "EMAIL_ADDRESS"
          /\ variables_out[j].dataType = "STRING"

\* ----------------------------------------------------------------- schema
InputsCalled == prof_op = "get_frauddetector_inputs"
InputsReturned == InputsCalled /\ ~prof_raised
ModelTypes == {"CATEGORY", "NUMERIC", "IP_ADDRESS", "EMAIL_ADDRESS"}
ColumnIndex(name) == CHOOSE i \in 1..Len(data) : data[i].name = name

\* C15: the modelVariables list of the derived schema is exactly the names
\* of the columns classified CATEGORY, NUMERIC, IP_ADDRESS or EMAIL_ADDRESS,
\* in dataset column order, with no column of another classification.
C15_ModelVariablesByType ==
    InputsReturned
        => LET mv == schema_out.modelVariables
           IN  /\ \A name \in ColumnNames(data) :
                     name \in Range(mv)
                         <=> RowOf(name).feature_type \in ModelTypes
               /\ Range(mv) \subseteq ColumnNames(data)
               /\ \A i, j \in 1..Len(mv) :
                     i < j => ColumnIndex(mv[i]) < ColumnIndex(mv[j])

\* Three columns: the label column (TARGET) and a column of no known type
\* are left out, the third one is listed.
C15_Witness ==
    /\ InputsReturned
    /\ Len(data) = 3
    /\ \E i \in 1..3 : table_out[i].feature_type = "TARGET"
    /\ \E i \in 1..3 : table_out[i].feature_type = "UNKOWN"
    /\ Len(schema_out.modelVariables) = 1

\* C16, as stated: when the label column has two distinct values, the label
\* mapping gives FRAUD the value with the fewer occurrences and LEGIT the
\* value with the more occurrences: no label value occurs less often than
\* the one under FRAUD, none more often than the one under LEGIT.
C16_MinorityIsFraudAnyColumn ==
    (InputsReturned /\ Cardinality(LabelValues) = 2)
        => LET m == schema_out.labelMapper
           IN  /\ m.FRAUD \in LabelValues /\ m.LEGIT \in LabelValues
               /\ \A v \in LabelValues :
                     /\ CountOf(LabelCells, m.FRAUD) <= CountOf(LabelCells, v)
                     /\ CountOf(LabelCells, v) <= CountOf(LabelCells, m.LEGIT)

\* C16, amended: when the label column has two distinct values and no cell
\* missing, the label mapping gives FRAUD the value with the fewer
\* occurrences and LEGIT the value with the more occurrences.  (value_counts
\* leaves the missing cells out: with a value and the missing value, both
\* sides of the mapping are the one value present.)
C16_MinorityIsFraud ==
    (InputsReturned /\ Cardinality(LabelValues) = 2 /\ Null \notin LabelValues)
        => LET m == schema_out.labelMapper
           IN  /\ m.FRAUD \in LabelValues /\ m.LEGIT \in LabelValues
               /\ \A v \in LabelValues :
                     /\ CountOf(LabelCells, m.FRAUD) <= CountOf(LabelCells, v)
                     /\ CountOf(LabelCells, v) <= CountOf(LabelCells, m.LEGIT)

\* The minority value is neither the first in the rows nor the first in the
\* alphabet.
C16_Witness ==
    /\ InputsReturned
    /\ LabelCells = <<"a", "b", "a">>
    /\ schema_out.labelMapper = [FRAUD |-> "b", LEGIT |-> "a"]

\* C17: with the filter flag set, schema derivation completes and returns a
\* variable list and a modelVariables list restricted to exactly the columns
\* whose warning is not "NO WARNING".
C17_FilterKeepsWarned ==
    (InputsCalled /\ filter_warnings /\ LabelColumnPresent
        /\ ValuesOf(LabelCells) # {})
        => LET warned == {table_out[i].feature_name : i \in
                            {j \in 1..Len(table_out) :
                                table_out[j].feature_warning # "NO WARNING"}}
           IN  /\ ~prof_raised
               /\ {variables_out[i].name : i \in 1..Len(variables_out)}
                     = warned \ Designated
               /\ Range(schema_out.modelVariables) \subseteq warned

\* --------------------------------------------------------------- warnings
\* The predicates of warning screening in their fixed order, and the tag of
\* each.  A fraction that is NaN is neither above nor below a threshold.
\* The label predicate is about the label column the caller designated.
Over(p, t) == ~p.nan /\ p.v > t
Under(p, t) == ~p.nan /\ p.v < t
WarningMatches(k, row) ==
    CASE k = 1 -> row.nunique # 2 /\ row.feature_name = event_column
      [] k = 2 -> Over(row.nunique_pct, 9000) /\ row.feature_type = "CATEGORY"
      [] k = 3 -> Over(row.null_pct, 2000) /\ ~Over(row.null_pct, 5000)
      [] k = 4 -> Over(row.null_pct, 5000)
      [] k = 5 -> /\ row.dtype \in {"int64", "float64"}
                  /\ Under(row.nunique_pct, 2000)
WarningTag(k) ==
    CASE k = 1 -> "LABEL WARNING, NON-BINARY EVENT LABEL"
      [] k = 2 -> "EXCLUDE, GT 90% UNIQUE"
      [] k = 3 -> "NULL WARNING, GT 20% MISSING"
      [] k = 4 -> "EXCLUDE, GT 50% MISSING"
      [] k = 5 -> "LIKELY CATEGORICAL, NUMERIC w. LOW CARDINALITY"
Matching(row) == {k \in 1..5 : WarningMatches(k, row)}
LastMatching(row) ==
    CHOOSE k \in Matching(row) : \A j \in Matching(row) : j <= k

\* C18: warning screening gives every column exactly one tag: the tag of the
\* last predicate that matches in the order [non-binary label, categorical
\* with over 90% distinct, 20-50% nulls, over 50% nulls, numeric with under
\* 20% distinct], and "NO WARNING" when none matches; a later match replaces
\* an earlier one whatever the severity.
C18_LastMatchingWarning ==
    TableReturned
        => \A i \in 1..Len(table_out) :
              table_out[i].feature_warning =
                  IF Matching(table_out[i]) = {} THEN "NO WARNING"
                  ELSE WarningTag(LastMatching(table_out[i]))

\* ------------------------------------------------------------- statistics
\* C19: for every dataset and every column of the statistics table, the
\* null count plus the not-null count is the dataset's row count.
C19_NullPlusNotNull ==
    TableReturned
        => \A i \in 1..Len(table_out) :
              /\ table_out[i].null >= 0 /\ table_out[i].not_null >= 0
              /\ table_out[i].null + table_out[i].not_null = RowCount(data)

\* Three rows, a column with one cell missing and two equal cells.
C19_Witness ==
    /\ TableReturned
    /\ RowCount(data) = 3
    /\ \E i \in 1..Len(table_out) :
          /\ table_out[i].null = 1 /\ table_out[i].not_null = 2
          /\ table_out[i].nunique = 1

\* C20: for every dataset, one with zero rows included, and every column,
\* the null fraction and the distinct-value fraction are defined and lie
\* between 0 and 1 inclusive.
C20_FractionsDefined ==
    TableReturned
        => \A i \in 1..Len(table_out) :
              /\ ~table_out[i].null_pct.nan
              /\ table_out[i].null_pct.v \in 0..10000
              /\ ~table_out[i].nunique_pct.nan
              /\ table_out[i].nunique_pct.v \in 0..10000

\* --------------------------------------------------- classification order
\* The rules of feature classification in their fixed order, the label and
\* timestamp rules being about the designated columns, and the type of each.
TypeRuleMatches(k, row) ==
    CASE k = 1 -> row.dtype = "object"
      [] k = 2 -> row.dtype \in {"int64", "float64"}
      [] k = 3 -> ContainsAny(row.feature_name, IpPatterns)
      [] k = 4 -> Contains(row.feature_name, EMAIL_NAME)
      [] k = 5 -> row.feature_name = event_column
      [] k = 6 -> row.feature_name = timestamp_column
TypeOfRule(k) ==
    CASE k = 1 -> "CATEGORY"
      [] k = 2 -> "NUMERIC"
      [] k = 3 -> "IP_ADDRESS"
      [] k = 4 -> "EMAIL_ADDRESS"
      [] k = 5 -> "TARGET"
      [] k = 6 -> "EVENT_TIMESTAMP"
TypeRulesMatching(row) == {k \in 1..6 : TypeRuleMatches(k, row)}
LastTypeRule(row) ==
    CHOOSE k \in TypeRulesMatching(row) :
        \A j \in TypeRulesMatching(row) : j <= k

\* C24: feature classification gives every column exactly one type: the
\* type of the last rule that matches in the order [object dtype, int64 or
\* float64 dtype, name contains an IP pattern, name contains "email", label
\* column, timestamp column]; a column matching no rule keeps the unknown
\* fallback.
C24_LastMatchingRule ==
    TableReturned
        => \A i \in 1..Len(table_out) :
              table_out[i].feature_type =
                  IF TypeRulesMatching(table_out[i]) = {} THEN "UNKOWN"
                  ELSE TypeOfRule(LastTypeRule(table_out[i]))

\* C29: whenever the label column has exactly two distinct values (none
\* missing), the label mapping of the derived schema gives FRAUD and LEGIT
\* two different values, also when both values occur equally often.
C29_FraudAndLegitDiffer ==
    (InputsReturned /\ Cardinality(LabelValues) = 2 /\ Null \notin LabelValues)
        => schema_out.labelMapper.FRAUD # schema_out.labelMapper.LEGIT

\* C30: with the filter flag off, the names in the schema's modelVariables
\* are exactly the names of the derived variable descriptors, in the same
\* order, for every dataset and every choice of label and timestamp column;
\* modelVariables never holds the designated label or timestamp column.
C30_ModelVariablesAreVariables ==
    (InputsReturned /\ ~filter_warnings)
        => /\ schema_out.modelVariables =
                 [i \in 1..Len(variables_out) |-> variables_out[i].name]
           /\ Range(schema_out.modelVariables) \cap Designated = {}

\* -------------------------------------------------- variables, round trip
\* C23: after create_variables(V) completes, every name of V is in the
\* remote variable set; after a delete_variables on those names completes
\* (the remote service accepted every delete), none of them is.
C23_CreateThenDeleteVariables ==
    /\ (pc = "idle" /\ op = "create_variables" /\ ~raised)
          => Range(variables) \subseteq fd_variables
    /\ (pc = "idle" /\ op = "delete_variables" /\ ~raised)
          => Range(variables) \cap fd_variables = {}

\* Two variables that had been created are deleted by one call.
C23_Witness ==
    /\ pc = "idle" /\ op = "delete_variables" /\ ~raised
    /\ variables = <<"n1", "n2">>
    /\ Len(log) = 2 /\ \A i \in 1..2 : log[i].api = "delete_variable"
    /\ fd_variables = {}

\* C28: within one create_variables or create_labels call, at most one
\* creation request is issued per distinct name, also when the list holds
\* the same not yet existing name more than once.
C28_OneCreatePerName ==
    (pc = "idle" /\ op \in {"create_variables", "create_labels"})
        => \A n \in AskedNames : Cardinality(CreateRequestsFor(n)) <= 1

\* ------------------------------------------------------------------ rules
\* C26: when the lookup of the existing rules ends in the handled KeyError
\* ("no pre-existing rules found") and no request fails, create_rules takes
\* the existing rules as empty: it issues a create for every rule of the
\* list and returns one response per rule.
C26_KeyErrorMeansNoRules ==
    (/\ pc = "idle" /\ op = "create_rules" /\ obs1 = "KeyError"
     /\ \A i \in DOMAIN log : log[i].ok)
        => /\ ~raised
           /\ \A i \in 1..Len(rules_list) :
                 \E j \in DOMAIN log :
                    log[j].api = "create_rule" /\ log[j].name = rules_list[i]
           /\ Len(result) = Len(rules_list)

\* ------------------------------------------------------------ concurrency
PutRequestsFor(o) ==
    {i \in DOMAIN requests :
        /\ requests[i].api \in {"put_entity_type", "put_event_type"}
        /\ requests[i].api = (IF o = "create_entity_type"
                              THEN "put_entity_type" ELSE "put_event_type")
        /\ requests[i].name = RaceName(o)}

\* C27: when two callers run a create operation for the same not yet
\* existing name and their listing and creating steps interleave in any
\* way, at most one creation request for the name is issued and the other
\* caller records "skipped".
C27_OneCreatorOneSkipped ==
    (/\ \A c \in Callers : callers[c].pc = "done"
     /\ callers[1].op = callers[2].op)
        => /\ Cardinality(PutRequestsFor(callers[1].op)) <= 1
           /\ \E c \in Callers :
                 \E n \in DOMAIN callers[c].result :
                    callers[c].result[n] = "skipped"

\* ------------------------------------------------------------- prediction
\* The request of a log entry failed: the service raised, or the response
\* held no model score to return.
PredictionFailed(r) == ~r.ok \/ r.response.modelScores = <<>>

\* C21: every predict call issues exactly one remote scoring request, whose
\* event identifier differs from the identifier of every other predict call
\* of the run (those made by batch_predict included); a call that returns
\* returns the score fields of the first model of the response with the
\* rule results added under "ruleResults".
C21_OneRequestFreshIdFirstModel ==
    /\ \A i, j \in DOMAIN event_ids : i # j => event_ids[i] # event_ids[j]
    /\ op = "predict" =>
          /\ Len(log) = 1
          /\ log[1].api = "get_event_prediction"
          /\ log[1].name = event_ids[Len(event_ids)]
          /\ raised = PredictionFailed(log[1])
          /\ ~raised =>
                /\ DOMAIN result =
                      DOMAIN log[1].response.modelScores[1] \cup {"ruleResults"}
                /\ \A k \in DOMAIN log[1].response.modelScores[1] :
                      result[k] = log[1].response.modelScores[1][k]
                /\ result["ruleResults"] = log[1].response.ruleResults

\* A third predict call of the run returned, on a response with two models.
C21_Witness ==
    /\ op = "predict" /\ ~raised
    /\ Len(event_ids) >= 3
    /\ Len(log) = 1 /\ Len(log[1].response.modelScores) = 2
    /\ result = ("model_a_insightscore" :> "14.0")
                   @@ ("ruleResults" :> <<"verify_outcome">>)

\* The first row of the DataFrame whose conversion fails (0: none does).
FirstBadRow(rows) ==
    IF \E i \in DOMAIN rows : rows[i].conv = "bad_row"
    THEN CHOOSE i \in DOMAIN rows :
            /\ rows[i].conv = "bad_row"
            /\ \A j \in 1..(i - 1) : rows[j].conv # "bad_row"
    ELSE 0

\* C22: batch_predict takes the rows one at a time in row order: the i-th
\* request is the prediction of row i.  When the prediction or the
\* conversion of a row fails, no request is issued for a later row, no
\* exception reaches the caller, and the call returns the predictions of
\* the rows that were processed before the failure, in row order.
C22_FailingRowEndsBatch ==
    (op = "batch_predict" /\ batch_in.events.kind = "DataFrame") =>
        LET rows == batch_in.events.rows
            bad == FirstBadRow(rows)
            done == {i \in DOMAIN log : ~PredictionFailed(log[i])}
        IN  /\ ~raised
            /\ Len(log) <= Len(rows)
            /\ \A i \in DOMAIN log :
                  /\ log[i].event = i
                  /\ log[i].response = rows[i].answer
                  /\ PredictionFailed(log[i]) => i = Len(log)
            /\ bad # 0 => Len(log) < bad
            /\ (bad = 0 /\ done = DOMAIN log /\ Len(log) < Len(rows)) =>
                  (log = <<>> /\ \E i \in DOMAIN rows :
                                    rows[i].conv = "bad_timestamp")
            /\ done = 1..Len(result)
            /\ \A i \in DOMAIN result : result[i] = Score(log[i].response)

\* Three rows, the prediction of the second fails on a response without
\* model scores: two requests, and the one prediction of the first row is
\* returned.
C22_Witness ==
    /\ op = "batch_predict" /\ batch_in.events.kind = "DataFrame"
    /\ Len(batch_in.events.rows) = 3
    /\ \A i \in 1..3 : batch_in.events.rows[i].conv = "ok"
    /\ ~batch_in.events.rows[2].answer.raises
    /\ batch_in.events.rows[2].answer.modelScores = <<>>
    /\ batch_in.events.rows[1].answer.modelScores # <<>>
    /\ batch_in.events.rows[3].answer.modelScores # <<>>
    /\ ~batch_in.events.rows[3].answer.raises
    /\ Len(log) = 2 /\ Len(result) = 1 /\ ~raised

\* C25: batch_predict called with events=None and a DataFrame with rows
\* passed as df issues one prediction per row of df and returns their
\* results in row order.
C25_DfIsPredicted ==
    (/\ op = "batch_predict"
     /\ batch_in.events.kind = "None"
     /\ batch_in.df.kind = "DataFrame"
     /\ Len(batch_in.df.rows) > 0) =>
        /\ Len(log) = Len(batch_in.df.rows)
        /\ Len(result) = Len(batch_in.df.rows)
        /\ \A i \in DOMAIN log : log[i].event = i

====
